---- MODULE Spec2Model ----
(***************************************************************************)
(* Model of anchor's event attribute crate (lang/attribute/event):         *)
(* #[event], emit!, emit_cpi! and #[event_cpi].                            *)
(*                                                                         *)
(* One behaviour is one execution of an instruction handler of the owning  *)
(* program (crate::ID) whose accounts struct carries the two fields that   *)
(* #[event_cpi] appends.  The handler issues a bounded sequence of emit!   *)
(* and emit_cpi! statements.  The two syscalls (sol_log_data and           *)
(* invoke_signed) are modelled at their interface: what the generated code *)
(* hands to them and what they hand back.                                  *)
(***************************************************************************)
EXTENDS Integers, Sequences, FiniteSets, TLC

VARIABLES
    hash,           \* anchor_syn::hash::hash, an unknown deterministic function
    curve,          \* (program id, bump) pairs whose derived address is a valid key
    no_cpi_events,  \* the `no-cpi-events` cargo feature; no macro here reads it
    accounts,       \* ctx.accounts: the keys the caller supplied
    bumps,          \* ctx.bumps
    pc,             \* position of the execution
    status,         \* "Running", "Ok" (handler returned Ok(())), "Failed"
    err,            \* the failure the execution ended with
    ix,             \* __ix: the instruction emit_cpi! built
    result,         \* what invoke_signed returned
    log,            \* what sol_log_data was handed, in call order
    invocations,    \* the nested invocations the runtime dispatched, in order
    issued          \* the emission statements the handler has issued, in order

vars == <<hash, curve, no_cpi_events, accounts, bumps, pc, status, err, ix,
          result, log, invocations, issued>>

(* ------------------------------ bounds -------------------------------- *)

\* emission statements one handler execution issues
MaxEmissions == 2
\* largest bump seed tried by the address derivation (u8::MAX in the runtime)
MaxBump == 1
\* bytes of a digest beyond the discriminator prefix (24 for a 32 byte digest)
DigestTail == 1

(* ----------------------------- byte strings --------------------------- *)

None == "None"

\* [0u8; 8] and [..8]
DISCRIMINATOR_LEN == 8

\* the k low bytes of n, least significant first
RECURSIVE to_le_bytes(_, _)
to_le_bytes(n, k) ==
    IF k = 0 THEN <<>> ELSE <<n % 256>> \o to_le_bytes(n \div 256, k - 1)

\* u64::to_le_bytes, as borsh writes a u64
U64LE(n) == to_le_bytes(n, 8)

DigestLen == DISCRIMINATOR_LEN + DigestTail

\* the digests the hash may return: three that differ in their first eight
\* bytes or only after them
Digests ==
    { [i \in 1..DigestLen |-> IF i <= DISCRIMINATOR_LEN THEN (a * i) % 256 ELSE (b + i) % 256] :
        a \in {3, 7}, b \in {100} }
    \cup { [i \in 1..DigestLen |-> IF i <= DISCRIMINATOR_LEN THEN (3 * i) % 256 ELSE (200 + i) % 256] }

(* ------------------------------ #[event] ------------------------------ *)

EventNames == {"Ping", "MyEvent", "Blob"}

\* format!("event:{event_name}")
discriminator_preimage(event_name) == "event:" \o event_name

Preimages == { discriminator_preimage(n) : n \in EventNames }

\* hash(preimage).to_bytes()[..8]
discriminator(event_name) ==
    SubSeq(hash[discriminator_preimage(event_name)], 1, DISCRIMINATOR_LEN)

\* the event values the handler may emit:
\*   struct Ping {}                                  (no fields)
\*   struct MyEvent { data: u64, label: [u8; 5] }    (the documented example)
\*   struct Blob { .. }  with a field whose serializer returns Err
EventValues ==
    { [name |-> "Ping"] }
    \cup { [name |-> "MyEvent", data |-> d, label |-> <<1, 2, 3, 4, 5>>] : d \in {5, 258} }
    \cup { [name |-> "Blob"] }

\* AnchorSerialize::try_to_vec of the derived impl: the fields in declaration
\* order, a u64 little endian, a fixed array byte by byte
try_to_vec(v) ==
    CASE v.name = "Ping"    -> [ok |-> TRUE, bytes |-> <<>>]
      [] v.name = "MyEvent" -> [ok |-> TRUE, bytes |-> U64LE(v.data) \o v.label]
      [] v.name = "Blob"    -> [ok |-> FALSE, bytes |-> <<>>]

\* Event::data: d = DISCRIMINATOR.to_vec(); d.append(try_to_vec().unwrap()).
\* The unwrap panics on Err: data is defined where Panics is FALSE.
Panics(v) == ~try_to_vec(v).ok

\* the discriminator appended after the payload instead of before it
data_payload_first(v) == try_to_vec(v).bytes \o discriminator(v.name)

data(v) == discriminator(v.name) \o try_to_vec(v).bytes

(* ------------------- addresses and their derivation ------------------- *)

\* crate::ID, the owning program; another program; an externally owned key
ID == "ProgramP"
OtherProgram == "ProgramQ"
Wallet == "Wallet"

Programs == {ID, OtherProgram}

\* b"__event_authority"
SEED == "__event_authority"

Bumps == 0..MaxBump

\* Pubkey::create_program_address(&[seed, &[bump]], program_id): Err when the
\* derived address is a valid key, else the address
create_program_address(seed, bump, program_id) ==
    IF <<program_id, bump>> \in curve
    THEN None
    ELSE seed \o "/" \o ToString(bump) \o "/" \o program_id

\* Pubkey::find_program_address: the highest bump that derives an address
find_program_address(seed, program_id) ==
    LET valid == { b \in Bumps : create_program_address(seed, b, program_id) # None }
        top   == CHOOSE b \in valid : \A c \in valid : c <= b
    IN  [address |-> create_program_address(seed, top, program_id), bump |-> top]

\* every address a caller may present as the event authority
AuthorityKeys ==
    ({ create_program_address(SEED, b, p) : b \in Bumps, p \in Programs } \ {None})
    \cup {Wallet}

(* ---------------------------- #[event_cpi] ---------------------------- *)

ConstraintSeeds == "ConstraintSeeds"
ConstraintAddress == "ConstraintAddress"

\* #[event_cpi] without the address constraint on `program`
event_cpi_without_address(accs) ==
    LET pda == find_program_address(SEED, ID)
    IN  IF accs.event_authority.key # pda.address
        THEN [ok |-> FALSE, error |-> ConstraintSeeds, bump |-> 0]
        ELSE [ok |-> TRUE, error |-> None, bump |-> pda.bump]

\* #[event_cpi] without the seeds constraint on `event_authority`
event_cpi_without_seeds(accs) ==
    LET pda == find_program_address(SEED, ID)
    IN  IF accs.program.key # ID
        THEN [ok |-> FALSE, error |-> ConstraintAddress, bump |-> 0]
        ELSE [ok |-> TRUE, error |-> None, bump |-> pda.bump]

\* the two fields #[event_cpi] appends, checked in declaration order when the
\* accounts are deserialized:
\*   #[account(seeds = [b"__event_authority"], bump)] event_authority
\*   #[account(address = crate::ID)]                  program
\* Ok carries the bump the seeds constraint found.
event_cpi(accs) ==
    LET pda == find_program_address(SEED, ID)
    IN  IF accs.event_authority.key # pda.address
        THEN [ok |-> FALSE, error |-> ConstraintSeeds, bump |-> 0]
        ELSE IF accs.program.key # ID
        THEN [ok |-> FALSE, error |-> ConstraintAddress, bump |-> 0]
        ELSE [ok |-> TRUE, error |-> None, bump |-> pda.bump]

(* ------------------------------ syscalls ------------------------------ *)

\* crate::event::EVENT_IX_TAG_LE, the eight bytes that open the data of the
\* event instruction; a constant defined outside this crate
\* (0x1d9acb512ea545e4, little endian)
EVENT_IX_TAG_LE == <<228, 69, 165, 46, 81, 203, 154, 29>>

NoIx == [program_id |-> None, data |-> <<>>, accounts |-> <<>>]

MissingRequiredSignature == "MissingRequiredSignature"
InvalidSeeds == "InvalidSeeds"
Refused == "Refused"

\* solana_program::program::invoke_signed(ix, account_infos, signers_seeds)
\* called by program `caller`: the keys derived from signers_seeds sign for
\* the caller; an account the instruction flags as signer must be one of them
\* or have signed already; the runtime may refuse for reasons of its own
\* (invocation depth, re-entrancy, failure of the invoked program).
invoke_signed(caller, an_ix, account_infos, signers_seeds, runtime_accepts) ==
    LET derived == { create_program_address(s[1], s[2], caller) :
                        s \in { signers_seeds[i] : i \in DOMAIN signers_seeds } }
        signed  == (derived \ {None})
                   \cup { a.key : a \in { i \in account_infos : i.is_signer } }
    IN  IF None \in derived THEN InvalidSeeds
        ELSE IF \E i \in DOMAIN an_ix.accounts :
                    an_ix.accounts[i].is_signer /\ an_ix.accounts[i].pubkey \notin signed
        THEN MissingRequiredSignature
        ELSE IF ~runtime_accepts THEN Refused
        ELSE "Ok"

(* ------------------------------- state -------------------------------- *)

NoBumps == [k \in {} |-> 0]

Init ==
    /\ hash \in [Preimages -> Digests]
    /\ curve \in { c \in SUBSET (Programs \X Bumps) :
                     \A p \in Programs : \E b \in Bumps : <<p, b>> \notin c }
    /\ no_cpi_events \in BOOLEAN
    /\ accounts \in { a \in [program : [key : Programs, is_signer : {FALSE}],
                            event_authority : [key : AuthorityKeys, is_signer : BOOLEAN]] :
                        a.event_authority.is_signer => a.event_authority.key = Wallet }
    /\ bumps = NoBumps
    /\ pc = "Start"
    /\ status = "Running"
    /\ err = None
    /\ ix = NoIx
    /\ result = None
    /\ log = <<>>
    /\ invocations = <<>>
    /\ issued = <<>>

\* the handler is between two statements of its body
Ready == status = "Running" /\ pc \in {"Validated", "Success"}

\* the execution ends in failure e: a panic, or Err returned up the call stack
Abort(e) ==
    /\ pc' = "Aborted"
    /\ status' = "Failed"
    /\ err' = e

(* ------------------------------ actions ------------------------------- *)

\* the accounts are deserialized and their constraints checked before the
\* handler body runs
TryAccounts ==
    /\ pc = "Start"
    /\ LET checked == event_cpi(accounts)
       IN  IF checked.ok
           THEN /\ bumps' = ("event_authority" :> checked.bump)
                /\ pc' = "Validated"
                /\ UNCHANGED <<status, err>>
           ELSE /\ Abort(checked.error)
                /\ UNCHANGED bumps
    /\ UNCHANGED <<hash, curve, no_cpi_events, accounts, ix, result, log,
                   invocations, issued>>

\* emit! whose record is put before the earlier ones
emit_prepend(v) ==
    /\ Ready
    /\ Len(issued) < MaxEmissions
    /\ issued' = Append(issued, [kind |-> "emit", event |-> v])
    /\ IF Panics(v)
       THEN /\ Abort("SerializationFailure")
            /\ UNCHANGED log
       ELSE /\ log' = <<<<data(v)>>>> \o log
            /\ UNCHANGED <<pc, status, err>>
    /\ UNCHANGED <<hash, curve, no_cpi_events, accounts, bumps, ix, result,
                   invocations>>

\* emit! with unwrap_or_default() in place of unwrap(): a payload that fails
\* to serialize is logged as a bare discriminator and the handler goes on
emit_unwrap_or_default(v) ==
    /\ Ready
    /\ Len(issued) < MaxEmissions
    /\ issued' = Append(issued, [kind |-> "emit", event |-> v])
    /\ log' = Append(log, <<data(v)>>)
    /\ UNCHANGED <<pc, status, err>>
    /\ UNCHANGED <<hash, curve, no_cpi_events, accounts, bumps, ix, result,
                   invocations>>

\* emit!(v): sol_log_data(&[&Event::data(&v)])
emit(v) ==
    /\ Ready
    /\ Len(issued) < MaxEmissions
    /\ issued' = Append(issued, [kind |-> "emit", event |-> v])
    /\ IF Panics(v)
       THEN /\ Abort("SerializationFailure")
            /\ UNCHANGED log
       ELSE /\ log' = Append(log, <<data(v)>>)
            /\ UNCHANGED <<pc, status, err>>
    /\ UNCHANGED <<hash, curve, no_cpi_events, accounts, bumps, ix, result,
                   invocations>>

Emit == \E v \in EventValues : emit(v)

\* emit_cpi! that extends the instruction data of the previous emission
\* instead of starting from the tag
emit_cpi_build_carry(v) ==
    /\ Ready
    /\ Len(issued) < MaxEmissions
    /\ issued' = Append(issued, [kind |-> "emit_cpi", event |-> v])
    /\ IF "event_authority" \notin DOMAIN bumps
       THEN /\ Abort("MissingBump")
            /\ UNCHANGED ix
       ELSE IF Panics(v)
       THEN /\ Abort("SerializationFailure")
            /\ UNCHANGED ix
       ELSE /\ ix' = [program_id |-> accounts.program.key,
                      data       |-> ix.data \o EVENT_IX_TAG_LE \o data(v),
                      accounts   |-> << [pubkey      |-> accounts.event_authority.key,
                                         is_signer   |-> TRUE,
                                         is_writable |-> FALSE] >>]
            /\ pc' = "EnvelopeBuilt"
            /\ UNCHANGED <<status, err>>
    /\ UNCHANGED <<hash, curve, no_cpi_events, accounts, bumps, result, log,
                   invocations>>

\* emit_cpi!(v), up to the instruction: the accounts and the bump are read
\* from ctx, the data is the tag followed by the event record, the one account
\* is the event authority as a read-only signer
emit_cpi_build(v) ==
    /\ Ready
    /\ Len(issued) < MaxEmissions
    /\ issued' = Append(issued, [kind |-> "emit_cpi", event |-> v])
    /\ IF "event_authority" \notin DOMAIN bumps
       THEN /\ Abort("MissingBump")
            /\ UNCHANGED ix
       ELSE IF Panics(v)
       THEN /\ Abort("SerializationFailure")
            /\ UNCHANGED ix
       ELSE /\ ix' = [program_id |-> accounts.program.key,
                      data       |-> EVENT_IX_TAG_LE \o data(v),
                      accounts   |-> << [pubkey      |-> accounts.event_authority.key,
                                         is_signer   |-> TRUE,
                                         is_writable |-> FALSE] >>]
            /\ pc' = "EnvelopeBuilt"
            /\ UNCHANGED <<status, err>>
    /\ UNCHANGED <<hash, curve, no_cpi_events, accounts, bumps, result, log,
                   invocations>>

EmitCpiBuild == \E v \in EventValues : emit_cpi_build(v)

\* signer seeds with a bump written into the code instead of read from ctx
signers_seeds_fixed_bump == << <<SEED, MaxBump>> >>

\* the signer seeds emit_cpi! passes: &[&[b"__event_authority", &[bump]]]
signers_seeds == << <<SEED, bumps["event_authority"]>> >>

\* emit_cpi!, the call of invoke_signed with the program and the event
\* authority as account infos; an accepted invocation is dispatched
emit_cpi_invoke(runtime_accepts) ==
    /\ pc = "EnvelopeBuilt"
    /\ LET r == invoke_signed(ID, ix, {accounts.program, accounts.event_authority},
                              signers_seeds, runtime_accepts)
       IN  /\ result' = r
           /\ invocations' =
                IF r = "Ok"
                THEN Append(invocations, [program_id    |-> ix.program_id,
                                          data          |-> ix.data,
                                          accounts      |-> ix.accounts,
                                          signers_seeds |-> signers_seeds])
                ELSE invocations
    /\ pc' = "Dispatched"
    /\ UNCHANGED <<hash, curve, no_cpi_events, accounts, bumps, status, err, ix,
                   log, issued>>

EmitCpiInvoke == \E runtime_accepts \in BOOLEAN : emit_cpi_invoke(runtime_accepts)

\* emit_cpi! that drops the result of invoke_signed
EmitCpiReturn_swallow ==
    /\ pc = "Dispatched"
    /\ pc' = "Success"
    /\ UNCHANGED <<hash, curve, no_cpi_events, accounts, bumps, status, err, ix,
                   result, log, invocations, issued>>

\* emit_cpi!, `.map_err(anchor_lang::error::Error::from)?` on the result
EmitCpiReturn ==
    /\ pc = "Dispatched"
    /\ IF result = "Ok"
       THEN /\ pc' = "Success"
            /\ UNCHANGED <<status, err>>
       ELSE Abort(result)
    /\ UNCHANGED <<hash, curve, no_cpi_events, accounts, bumps, ix, result, log,
                   invocations, issued>>

\* the handler body ends: Ok(())
HandlerReturn ==
    /\ Ready
    /\ status' = "Ok"
    /\ UNCHANGED <<hash, curve, no_cpi_events, accounts, bumps, pc, err, ix,
                   result, log, invocations, issued>>

Next ==
    \/ TryAccounts
    \/ Emit
    \/ EmitCpiBuild
    \/ EmitCpiInvoke
    \/ EmitCpiReturn
    \/ HandlerReturn

Spec == Init /\ [][Next]_vars

(* ------------------------- notions of the claims ---------------------- *)

IsEmit(s) == s.kind = "emit"
IsEmitCpi(s) == s.kind = "emit_cpi"

\* the statements issued so far on each channel, in issue order
IssuedEmit == SelectSeq(issued, IsEmit)
IssuedEmitCpi == SelectSeq(issued, IsEmitCpi)

LastIssued == issued[Len(issued)]

\* the address derived from the fixed seed and the owning program
AuthorityAddress == find_program_address(SEED, ID).address

CorrectAccounts ==
    /\ accounts.program.key = ID
    /\ accounts.event_authority.key = AuthorityAddress

\* tag ++ serialize(payload), spelled out from the hash and the serializer
EventRecord(v) ==
    SubSeq(hash["event:" \o v.name], 1, 8) \o try_to_vec(v).bytes

\* the nested invocation scenario B describes
ExpectedInvocation(v) ==
    [program_id    |-> ID,
     data          |-> EVENT_IX_TAG_LE \o EventRecord(v),
     accounts      |-> << [pubkey |-> AuthorityAddress, is_signer |-> TRUE,
                           is_writable |-> FALSE] >>,
     signers_seeds |-> << <<"__event_authority", bumps["event_authority"]>> >>]

(* -------------------------------- C1 ---------------------------------- *)

\* C1: every record emit! hands to the log primitive is one byte string, the
\* 8-byte discriminator of the event's type (the first 8 bytes of the hash of
\* "event:" + type name, whatever the instance) followed by exactly the
\* serializer's output, also when that output is empty.
C1_RecordIsTagThenPayload ==
    /\ Len(log) <= Len(IssuedEmit)
    /\ \A i \in DOMAIN log :
        LET v == IssuedEmit[i].event
            r == log[i][1]
            payload == try_to_vec(v).bytes
        IN  /\ Len(log[i]) = 1
            /\ Len(r) = 8 + Len(payload)
            /\ SubSeq(r, 1, 8) = SubSeq(hash["event:" \o v.name], 1, 8)
            /\ SubSeq(r, 9, Len(r)) = payload

\* a zero-length payload and a non-empty payload have both been logged
C1_Witness ==
    /\ Len(log) = 2
    /\ Len(log[1][1]) = 8
    /\ Len(log[2][1]) = 21
    /\ IssuedEmit[1].event.name = "Ping"
    /\ IssuedEmit[2].event.name = "MyEvent"

(* -------------------------------- C2 ---------------------------------- *)

\* C2 as stated: an authenticated emission (of an event that serializes) made
\* with correct program and authority accounts, once over, has recorded
\* exactly one nested invocation, the one scenario B describes.
C2_AlwaysRecordsInvocation ==
    (CorrectAccounts /\ issued # <<>> /\ IsEmitCpi(LastIssued)
        /\ try_to_vec(LastIssued.event).ok
        /\ pc \in {"Success", "Aborted"}) =>
        /\ Len(invocations) = Len(IssuedEmitCpi)
        /\ invocations[Len(invocations)] = ExpectedInvocation(LastIssued.event)

\* C2 as amended: when invoke_signed has returned for an authenticated
\* emission made with correct accounts, the instruction emit_cpi! built has
\* passed the runtime's signer verification (the only failure left is the
\* runtime's own refusal), and an accepted emission has recorded exactly one
\* nested invocation (one per emit_cpi! issued): addressed to the owning
\* program, data ixTag ++ tag ++ serialize(payload), one account, the derived
\* authority address as read-only signer, signed for with the pair
\* (seed "__event_authority", bump of the execution context).
C2_OneInvocationPerEmission ==
    (pc = "Dispatched" /\ CorrectAccounts) =>
        /\ result \in {"Ok", Refused}
        /\ bumps["event_authority"] = find_program_address(SEED, ID).bump
        /\ result = "Ok" =>
            /\ Len(invocations) = Len(IssuedEmitCpi)
            /\ invocations[Len(invocations)] = ExpectedInvocation(LastIssued.event)
            /\ Len(invocations[Len(invocations)].accounts) = 1

\* the documented event has been emitted with correct accounts and dispatched
C2_Witness ==
    /\ pc = "Success"
    /\ CorrectAccounts
    /\ Len(invocations) = 1
    /\ LastIssued = [kind |-> "emit_cpi",
                     event |-> [name |-> "MyEvent", data |-> 5, label |-> <<1, 2, 3, 4, 5>>]]
    /\ Len(invocations[1].data) = 29

(* -------------------------------- C3 ---------------------------------- *)

\* C3: when the account supplied as "program" is not the owning program,
\* the execution is rejected with an authority-mismatch failure before the
\* handler issues anything, and no nested invocation is dispatched.
C3_WrongProgramRejected ==
    (accounts.program.key # ID /\ pc # "Start") =>
        /\ status = "Failed"
        /\ pc = "Aborted"
        /\ err \in {ConstraintSeeds, ConstraintAddress}
        /\ issued = <<>>
        /\ invocations = <<>>
        /\ result = None

\* another program was supplied together with the right authority
C3_Witness ==
    /\ accounts.program.key = OtherProgram
    /\ accounts.event_authority.key = AuthorityAddress
    /\ pc = "Aborted"
    /\ err = ConstraintAddress

(* -------------------------------- C4 ---------------------------------- *)

\* C4: when the address of the account supplied as "authority" is not the
\* address derived from the fixed seed and the owning program, the execution
\* is rejected and no nested invocation (signed by that account or otherwise)
\* is recorded.
C4_WrongAuthorityRejected ==
    (accounts.event_authority.key # AuthorityAddress /\ pc # "Start") =>
        /\ status = "Failed"
        /\ pc = "Aborted"
        /\ err = ConstraintSeeds
        /\ issued = <<>>
        /\ invocations = <<>>
        /\ result = None

\* an externally owned address that signed the transaction was supplied as
\* the authority, with the right program
C4_Witness ==
    /\ accounts.event_authority = [key |-> Wallet, is_signer |-> TRUE]
    /\ accounts.program.key = ID
    /\ pc = "Aborted"
    /\ err = ConstraintSeeds

(* -------------------------------- C5 ---------------------------------- *)

\* C5: once invoke_signed has failed, the emission is never Success and the
\* handler issues nothing more: the execution is at the failed call or has
\* ended Failed with exactly the error invoke_signed returned.
C5_DispatchFailurePropagates ==
    (result # None /\ result # "Ok") =>
        /\ pc \in {"Dispatched", "Aborted"}
        /\ status # "Ok"
        /\ IsEmitCpi(LastIssued)
        /\ pc = "Aborted" => (status = "Failed" /\ err = result)

\* the runtime refused the second emission of an execution, which then failed
C5_Witness ==
    /\ result = Refused
    /\ pc = "Aborted"
    /\ status = "Failed"
    /\ err = Refused
    /\ Len(invocations) = 1
    /\ Len(issued) = 2

(* -------------------------------- C6 ---------------------------------- *)

\* a serialization failure, an authority mismatch or a dispatch failure has
\* happened and has been handled
FailureHappened ==
    \/ pc # "Start" /\ ~CorrectAccounts
    \/ issued # <<>> /\ ~try_to_vec(LastIssued.event).ok
    \/ result # None /\ result # "Ok" /\ pc # "Dispatched"

C8_DisabledMeansLogOnly ==
    no_cpi_events =>
        /\ result = None
        /\ invocations = <<>>
        /\ status = "Ok" => Len(log) = Len(issued)

(* ------------------------------- C10 ---------------------------------- *)

PhaseOrder ==
    { <<"Start", "Validated">>, <<"Start", "Aborted">>,
      <<"Validated", "EnvelopeBuilt">>, <<"Validated", "Aborted">>,
      <<"EnvelopeBuilt", "Dispatched">>,
      <<"Dispatched", "Success">>, <<"Dispatched", "Aborted">>,
      <<"Success", "EnvelopeBuilt">>, <<"Success", "Aborted">> }

\* the instruction of the emission of v alone
Envelope(v) ==
    [program_id |-> ID,
     data       |-> EVENT_IX_TAG_LE \o EventRecord(v),
     accounts   |-> << [pubkey |-> AuthorityAddress, is_signer |-> TRUE,
                        is_writable |-> FALSE] >>]

====
